---- MODULE Spec2Model ----
(***************************************************************************)
(* Model of kube-core's structural schema rewriter                         *)
(* (src/kube-core/src/schema.rs and src/kube-core/src/schema/*.rs).        *)
(*                                                                         *)
(* A generic JSON node (serde_json::Value / schemars::Schema) is a record  *)
(* of JSON keywords; a missing keyword is None (the empty sequence), a     *)
(* present one is Some(v) (a one-element sequence).  A boolean schema is   *)
(* [bool |-> b].  JSON literals are strings: "null", "true", "false" are   *)
(* the JSON literals, any other string is a JSON string.                   *)
(*                                                                         *)
(* The typed SchemaObject is a record with the fields of the Rust struct.  *)
(* from_value / to_value convert between the two, as serde does for the    *)
(* derives in schema.rs (flatten, skip_if_default, skip_serializing_if).   *)
(***************************************************************************)
EXTENDS Integers, Sequences, FiniteSets, TLC

None == <<>>
Some(x) == <<x>>
IsSome(o) == Len(o) = 1
IsNone(o) == Len(o) = 0
Unwrap(o) == o[1]

(* The keys of a map must be visited in BTreeMap order; the model knows    *)
(* the order of the property names it uses.                                *)
NameOrder == <<"a", "b", "c">>
NoEntries == <<>>

JNull == "null"
JTrue == "true"
JFalse == "false"

\* ---------------------------------------------------------------------
\* Generic JSON nodes
\* ---------------------------------------------------------------------
JBool(b) == [bool |-> b]
IsJBool(j) == DOMAIN j = {"bool"}

\* the JSON object {}
JObj ==
  [ description |-> None, default |-> None, type |-> None, format |-> None,
    enum |-> None, anyOf |-> None, oneOf |-> None,
    items |-> None, maxItems |-> None, uniqueItems |-> None,
    required |-> {}, properties |-> NoEntries, additionalProperties |-> None,
    extra |-> NoEntries ]

\* ---------------------------------------------------------------------
\* The typed data model
\* ---------------------------------------------------------------------
Single(t) == [single |-> t]
Vec(ts) == [vec |-> ts]

InstanceType == {"null", "boolean", "object", "array", "number", "string", "integer"}

Metadata == [description |-> None, default |-> None]

SubschemaValidation == [any_of |-> None, one_of |-> None]

ArrayValidation == [items |-> None, max_items |-> None, unique_items |-> None]

ObjectValidation == [required |-> {}, properties |-> NoEntries, additional_properties |-> None]

\* SchemaObject::default(), except that `other` is the empty map a decoded
\* node carries instead of Value::Null (both serialize to no keyword).
SchemaObject ==
  [ metadata |-> None, instance_type |-> None, format |-> None, enum_values |-> None,
    subschemas |-> None, array |-> None, object |-> None,
    extensions |-> NoEntries, other |-> NoEntries ]

SchemaBool(b) == [Bool |-> b]
IsSchemaBool(s) == DOMAIN s = {"Bool"}

\* values of a map in key order
MapKeys(m) == SelectSeq(NameOrder, LAMBDA n : n \in DOMAIN m)
MapValues(m) == [i \in 1..Len(MapKeys(m)) |-> m[MapKeys(m)[i]]]
MapInsert(m, k, v) == [n \in DOMAIN m \cup {k} |-> IF n = k THEN v ELSE m[n]]

\* the type keyword names instance types only
TypeDecodes(t) ==
  IF "single" \in DOMAIN t THEN t.single \in InstanceType
  ELSE \A i \in 1..Len(t.vec) : t.vec[i] \in InstanceType

\* Does serde decode the node into Schema (Bool or Object)?  Every keyword
\* of the node and of the child schemas the struct holds has to decode.
RECURSIVE Decodes(_)
Decodes(j) ==
  \/ IsJBool(j)
  \/ /\ IsSome(j.type) => TypeDecodes(Unwrap(j.type))
     \* max_items is a u32: a negative number does not decode (nor does one
     \* above the u32 range, which the checker's integers cannot hold)
     /\ IsSome(j.maxItems) => Unwrap(j.maxItems) >= 0
     /\ IsSome(j.anyOf) => \A i \in 1..Len(Unwrap(j.anyOf)) : Decodes(Unwrap(j.anyOf)[i])
     /\ IsSome(j.oneOf) => \A i \in 1..Len(Unwrap(j.oneOf)) : Decodes(Unwrap(j.oneOf)[i])
     /\ IsSome(j.items) => Decodes(Unwrap(j.items))
     /\ IsSome(j.additionalProperties) => Decodes(Unwrap(j.additionalProperties))
     /\ \A n \in DOMAIN j.properties : Decodes(j.properties[n])

\* skip_if_default: a flattened group that equals its default decodes to None
skip_if_default(value, default) == IF value = default THEN None ELSE Some(value)

RECURSIVE DecodeSchema(_)
DecodeSchema(j) ==
  IF IsJBool(j) THEN SchemaBool(j.bool)
  ELSE
    LET DecodeAll(list) == [i \in 1..Len(list) |-> DecodeSchema(list[i])]
        DecodeOpt(o) == IF IsSome(o) THEN Some(DecodeAll(Unwrap(o))) ELSE None
    IN [ metadata |-> skip_if_default([description |-> j.description, default |-> j.default],
                                      Metadata),
         instance_type |-> j.type,
         format |-> j.format,
         enum_values |-> j.enum,
         subschemas |-> skip_if_default([any_of |-> DecodeOpt(j.anyOf),
                                         one_of |-> DecodeOpt(j.oneOf)],
                                        SubschemaValidation),
         array |-> skip_if_default([items |-> DecodeAll(j.items),
                                    max_items |-> j.maxItems,
                                    unique_items |-> j.uniqueItems],
                                   ArrayValidation),
         object |-> skip_if_default(
                      [required |-> j.required,
                       properties |-> [n \in DOMAIN j.properties |-> DecodeSchema(j.properties[n])],
                       additional_properties |-> DecodeAll(j.additionalProperties)],
                      ObjectValidation),
         \* both flattened maps receive every keyword the struct does not name
         extensions |-> j.extra,
         other |-> j.extra ]

\* serde_json::from_value::<SchemaObject>: a boolean node is no SchemaObject
from_value(j) ==
  IF ~IsJBool(j) /\ Decodes(j) THEN Some(DecodeSchema(j)) ELSE None

\* serde_json::to_value: the flattened groups contribute their keywords when
\* present; `extensions` is written before `other`, so that `other` wins
\* for a key held by both.
RECURSIVE to_value(_)
to_value(s) ==
  IF IsSchemaBool(s) THEN JBool(s.Bool)
  ELSE
    LET EncodeAll(list) == [i \in 1..Len(list) |-> to_value(list[i])]
        EncodeOpt(o) == IF IsSome(o) THEN Some(EncodeAll(Unwrap(o))) ELSE None
        metadata == IF IsSome(s.metadata) THEN Unwrap(s.metadata) ELSE Metadata
        subschemas == IF IsSome(s.subschemas) THEN Unwrap(s.subschemas) ELSE SubschemaValidation
        array == IF IsSome(s.array) THEN Unwrap(s.array) ELSE ArrayValidation
        object == IF IsSome(s.object) THEN Unwrap(s.object) ELSE ObjectValidation
    IN [ description |-> metadata.description,
         default |-> metadata.default,
         type |-> s.instance_type,
         format |-> s.format,
         enum |-> s.enum_values,
         anyOf |-> EncodeOpt(subschemas.any_of),
         oneOf |-> EncodeOpt(subschemas.one_of),
         items |-> EncodeAll(array.items),
         maxItems |-> array.max_items,
         uniqueItems |-> array.unique_items,
         required |-> object.required,
         properties |-> [n \in DOMAIN object.properties |-> to_value(object.properties[n])],
         additionalProperties |-> EncodeAll(object.additional_properties),
         extra |-> s.other @@ s.extensions ]

\* ---------------------------------------------------------------------
\* Results of a pass: the schema it returns, or the panic that ends the run.
\* `panic` is the empty sequence when the pass returned, else the message
\* followed by the values the message names.
\* ---------------------------------------------------------------------
Ok(s) == [panic |-> <<>>, schema |-> s]
Panic(msg, s) == [panic |-> msg, schema |-> s]
Panicked(r) == r.panic # <<>>

\* VariantEnums with the const arm matched before the enum arm
VariantEnumsConstFirst(variant) ==
  IF "const" \in DOMAIN variant.other THEN <<variant.other["const"]>>
  ELSE Unwrap(variant.enum_values)

\* the enum or const values a oneOf variant contributes (enum is matched first)
VariantEnums(variant) ==
  IF IsSome(variant.enum_values) THEN Unwrap(variant.enum_values)
  ELSE <<variant.other["const"]>>

RECURSIVE Flatten(_)
Flatten(seqs) == IF seqs = <<>> THEN <<>> ELSE Head(seqs) \o Flatten(Tail(seqs))

\* OneOfPanic without the comparison of the variants' types
OneOfPanicTypesNotCompared(one_of) ==
  LET n == Len(one_of)
      Untyped(i) == IsSchemaBool(one_of[i]) \/ IsNone(one_of[i].instance_type)
      NoValue(i) == /\ IsNone(one_of[i].enum_values)
                    /\ "const" \notin DOMAIN one_of[i].other
  IN IF \E i \in 1..n : Untyped(i)
     THEN <<"oneOf variants need to define a type!">>
     ELSE IF \E i \in 1..n : NoValue(i)
     THEN <<"oneOf variant did not provide \"enum\" or \"const\"">>
     ELSE <<>>

\* The panics of the oneOf type and enum checks, in the order the lazy
\* iterators reach them.
OneOfPanic(one_of) ==
  LET n == Len(one_of)
      Untyped(i) == IsSchemaBool(one_of[i]) \/ IsNone(one_of[i].instance_type)
      TypePanic(i) == IF IsSchemaBool(one_of[i])
                      THEN <<"oneOf variants can not be of type boolean">>
                      ELSE <<"oneOf variants need to define a type!">>
      BadType(i) == Untyped(i) \/ one_of[i].instance_type # one_of[1].instance_type
      NoValue(i) == /\ IsNone(one_of[i].enum_values)
                    /\ "const" \notin DOMAIN one_of[i].other
  IN IF Untyped(1) THEN TypePanic(1)
     ELSE IF \E i \in 2..n : BadType(i)
     THEN LET i == CHOOSE k \in 2..n : BadType(k) /\ \A l \in 2..(k - 1) : ~BadType(l)
          IN IF Untyped(i) THEN TypePanic(i)
             ELSE <<"All oneOf variants must have the same type">>
     ELSE IF \E i \in 1..n : NoValue(i)
     THEN <<"oneOf variant did not provide \"enum\" or \"const\"">>
     ELSE <<>>

\* hoist_one_of_enum that leaves the variants in oneOf
hoist_one_of_enum_keeping_one_of(incoming) ==
  IF IsNone(incoming.subschemas) THEN Ok(incoming)
  ELSE LET subschemas == Unwrap(incoming.subschemas) IN
  IF IsNone(subschemas.one_of) THEN Ok(incoming)
  ELSE LET one_of == Unwrap(subschemas.one_of) IN
  IF Len(one_of) = 0 THEN Ok(incoming)
  ELSE IF OneOfPanic(one_of) # <<>> THEN Panic(OneOfPanic(one_of), incoming)
  ELSE
    LET hoisted_instance_type == one_of[1].instance_type
        new_enums == Flatten([i \in 1..Len(one_of) |-> VariantEnums(one_of[i])])
        old_enums == IF IsSome(incoming.enum_values) THEN Unwrap(incoming.enum_values) ELSE <<>>
    IN Ok([incoming EXCEPT
             !.instance_type = hoisted_instance_type,
             !.enum_values = Some(old_enums \o new_enums)])

hoist_one_of_enum(incoming) ==
  IF IsNone(incoming.subschemas) THEN Ok(incoming)
  ELSE LET subschemas == Unwrap(incoming.subschemas) IN
  IF IsNone(subschemas.one_of) THEN Ok(incoming)
  ELSE LET one_of == Unwrap(subschemas.one_of) IN
  IF Len(one_of) = 0 THEN Ok(incoming)
  ELSE IF OneOfPanic(one_of) # <<>> THEN Panic(OneOfPanic(one_of), incoming)
  ELSE
    LET hoisted_instance_type == one_of[1].instance_type
        new_enums == Flatten([i \in 1..Len(one_of) |-> VariantEnums(one_of[i])])
        old_enums == IF IsSome(incoming.enum_values) THEN Unwrap(incoming.enum_values) ELSE <<>>
    IN Ok([incoming EXCEPT
             !.instance_type = hoisted_instance_type,
             !.enum_values = Some(old_enums \o new_enums),
             !.subschemas = Some([subschemas EXCEPT !.one_of = None])])

\* json!({"enum": [null], "nullable": true})
NullSignature == [JObj EXCEPT !.enum = Some(<<JNull>>), !.extra = [nullable |-> JTrue]]

\* hoist_any_of_option_enum that returns when both entries are the null signature
hoist_any_of_option_enum_lenient(incoming) ==
  IF IsNone(incoming.subschemas) THEN Ok(incoming)
  ELSE LET subschemas == Unwrap(incoming.subschemas) IN
  IF IsNone(subschemas.any_of) THEN Ok(incoming)
  ELSE LET any_of == Unwrap(subschemas.any_of) IN
  IF Len(any_of) # 2 THEN Ok(incoming)
  ELSE
    LET results == [i \in 1..2 |-> to_value(any_of[i]) = NullSignature] IN
    IF results[1] /\ results[2] THEN Ok(incoming)
    ELSE IF ~results[1] /\ ~results[2] THEN Ok(incoming)
    ELSE
      LET to_hoist == IF results[1] THEN any_of[2] ELSE any_of[1] IN
      IF IsSchemaBool(to_hoist)
      THEN Panic(<<"Somehow we have stumbled across a bool schema">>, incoming)
      ELSE
        LET old_metadata == IF IsSome(incoming.metadata) THEN Unwrap(incoming.metadata)
                            ELSE Metadata
            new_metadata == [old_metadata EXCEPT !.description =
                               IF IsSome(to_hoist.metadata)
                               THEN Unwrap(to_hoist.metadata).description ELSE None]
        IN Ok([incoming EXCEPT
                 !.metadata = Some(new_metadata),
                 !.instance_type = to_hoist.instance_type,
                 !.enum_values = to_hoist.enum_values,
                 !.other = ("nullable" :> JTrue) @@ incoming.other,
                 !.subschemas = Some([subschemas EXCEPT !.any_of = None])])

\* hoist_any_of_option_enum that writes the flag to `extensions`
hoist_any_of_option_enum_extensions(incoming) ==
  IF IsNone(incoming.subschemas) THEN Ok(incoming)
  ELSE LET subschemas == Unwrap(incoming.subschemas) IN
  IF IsNone(subschemas.any_of) THEN Ok(incoming)
  ELSE LET any_of == Unwrap(subschemas.any_of) IN
  IF Len(any_of) # 2 THEN Ok(incoming)
  ELSE
    LET results == [i \in 1..2 |-> to_value(any_of[i]) = NullSignature] IN
    IF results[1] /\ results[2] THEN Panic(<<"Too many nulls, not enough drinks">>, incoming)
    ELSE IF ~results[1] /\ ~results[2] THEN Ok(incoming)
    ELSE
      LET to_hoist == IF results[1] THEN any_of[2] ELSE any_of[1] IN
      IF IsSchemaBool(to_hoist)
      THEN Panic(<<"Somehow we have stumbled across a bool schema">>, incoming)
      ELSE
        LET old_metadata == IF IsSome(incoming.metadata) THEN Unwrap(incoming.metadata)
                            ELSE Metadata
            new_metadata == [old_metadata EXCEPT !.description =
                               IF IsSome(to_hoist.metadata)
                               THEN Unwrap(to_hoist.metadata).description ELSE None]
        IN Ok([incoming EXCEPT
                 !.metadata = Some(new_metadata),
                 !.instance_type = to_hoist.instance_type,
                 !.enum_values = to_hoist.enum_values,
                 !.extensions = ("nullable" :> JTrue) @@ incoming.extensions,
                 !.subschemas = Some([subschemas EXCEPT !.any_of = None])])

\* hoist_any_of_option_enum that takes the format of the entry as well
hoist_any_of_option_enum_with_format(incoming) ==
  IF IsNone(incoming.subschemas) THEN Ok(incoming)
  ELSE LET subschemas == Unwrap(incoming.subschemas) IN
  IF IsNone(subschemas.any_of) THEN Ok(incoming)
  ELSE LET any_of == Unwrap(subschemas.any_of) IN
  IF Len(any_of) # 2 THEN Ok(incoming)
  ELSE
    LET results == [i \in 1..2 |-> to_value(any_of[i]) = NullSignature] IN
    IF results[1] /\ results[2] THEN Panic(<<"Too many nulls, not enough drinks">>, incoming)
    ELSE IF ~results[1] /\ ~results[2] THEN Ok(incoming)
    ELSE
      LET to_hoist == IF results[1] THEN any_of[2] ELSE any_of[1] IN
      IF IsSchemaBool(to_hoist)
      THEN Panic(<<"Somehow we have stumbled across a bool schema">>, incoming)
      ELSE
        LET old_metadata == IF IsSome(incoming.metadata) THEN Unwrap(incoming.metadata)
                            ELSE Metadata
            new_metadata == [old_metadata EXCEPT !.description =
                               IF IsSome(to_hoist.metadata)
                               THEN Unwrap(to_hoist.metadata).description ELSE None]
        IN Ok([incoming EXCEPT
                 !.metadata = Some(new_metadata),
                 !.instance_type = to_hoist.instance_type,
                 !.format = to_hoist.format,
                 !.enum_values = to_hoist.enum_values,
                 !.other = ("nullable" :> JTrue) @@ incoming.other,
                 !.subschemas = Some([subschemas EXCEPT !.any_of = None])])

hoist_any_of_option_enum(incoming) ==
  IF IsNone(incoming.subschemas) THEN Ok(incoming)
  ELSE LET subschemas == Unwrap(incoming.subschemas) IN
  IF IsNone(subschemas.any_of) THEN Ok(incoming)
  ELSE LET any_of == Unwrap(subschemas.any_of) IN
  IF Len(any_of) # 2 THEN Ok(incoming)
  ELSE
    LET results == [i \in 1..2 |-> to_value(any_of[i]) = NullSignature] IN
    IF results[1] /\ results[2] THEN Panic(<<"Too many nulls, not enough drinks">>, incoming)
    ELSE IF ~results[1] /\ ~results[2] THEN Ok(incoming)
    ELSE
      LET to_hoist == IF results[1] THEN any_of[2] ELSE any_of[1] IN
      IF IsSchemaBool(to_hoist)
      THEN Panic(<<"Somehow we have stumbled across a bool schema">>, incoming)
      ELSE
        LET old_metadata == IF IsSome(incoming.metadata) THEN Unwrap(incoming.metadata)
                            ELSE Metadata
            new_metadata == [old_metadata EXCEPT !.description =
                               IF IsSome(to_hoist.metadata)
                               THEN Unwrap(to_hoist.metadata).description ELSE None]
        IN Ok([incoming EXCEPT
                 !.metadata = Some(new_metadata),
                 !.instance_type = to_hoist.instance_type,
                 !.enum_values = to_hoist.enum_values,
                 !.other = ("nullable" :> JTrue) @@ incoming.other,
                 !.subschemas = Some([subschemas EXCEPT !.any_of = None])])

\* ---------------------------------------------------------------------
\* Property hoisting and plain enum hoisting of the pipeline (schema.rs)
\* ---------------------------------------------------------------------
only_item(items) == IF Len(items) = 1 THEN Some(items[1]) ELSE None

TypeObject == Some(Single("object"))

\* the first key, in map order, that both maps hold with different values
FirstConflict(incoming, existing) ==
  SelectSeq(MapKeys(incoming),
            LAMBDA n : n \in DOMAIN existing /\ incoming[n] # existing[n])

merge_metadata(instance_type, variant_type) ==
  IF IsNone(variant_type) THEN [panic |-> <<>>, instance_type |-> instance_type]
  ELSE IF IsNone(instance_type) THEN [panic |-> <<>>, instance_type |-> variant_type]
  ELSE IF instance_type # variant_type
  THEN [panic |-> <<"variant defined type conflicting with existing type">>,
        instance_type |-> instance_type]
  ELSE [panic |-> <<>>, instance_type |-> instance_type]

\* One iteration of the loop of hoist_subschema_properties: the variant as
\* it is left behind, the root's object validation and the root's type.
HoistVariantProperties(variant, common_obj, instance_type) ==
  LET unchanged == [panic |-> <<>>, variant |-> variant,
                    common_obj |-> common_obj, instance_type |-> instance_type]
  IN
  IF IsSchemaBool(variant) THEN unchanged
  ELSE IF IsSome(variant.object) THEN
    LET variant_obj == Unwrap(variant.object)
        common == IF IsSome(common_obj) THEN Unwrap(common_obj) ELSE ObjectValidation
        description == IF IsSome(variant.metadata)
                       THEN Unwrap(variant.metadata).description ELSE None
        \* std::mem::take leaves the variant's metadata without description
        variant_metadata == IF IsSome(variant.metadata)
                            THEN Some([Unwrap(variant.metadata) EXCEPT !.description = None])
                            ELSE None
        only == only_item(MapValues(variant_obj.properties))
        variant_properties ==
          IF IsSome(description) /\ IsSome(only) /\ ~IsSchemaBool(Unwrap(only))
          THEN LET name == MapKeys(variant_obj.properties)[1]
                   variant_object == Unwrap(only)
                   metadata == IF IsSome(variant_object.metadata)
                               THEN Unwrap(variant_object.metadata) ELSE Metadata
               IN [variant_obj.properties EXCEPT ![name] =
                     [variant_object EXCEPT !.metadata =
                        Some([metadata EXCEPT !.description = description])]]
          ELSE variant_obj.properties
        conflict == FirstConflict(variant_properties, common.properties)
        properties == [n \in DOMAIN common.properties \cup DOMAIN variant_properties |->
                         IF n \in DOMAIN common.properties THEN common.properties[n]
                         ELSE variant_properties[n]]
        merged == merge_metadata(instance_type, variant.instance_type)
        left == [variant EXCEPT
                   !.metadata = variant_metadata,
                   !.instance_type = None,
                   !.object = Some([variant_obj EXCEPT !.properties = NoEntries,
                                                       !.additional_properties = None])]
    IN IF conflict # <<>>
       THEN [unchanged EXCEPT !.panic =
               <<"Property has the schema but was already defined as in another subschema",
                 conflict[1]>>]
       ELSE [panic |-> merged.panic, variant |-> left,
             common_obj |-> Some([common EXCEPT !.properties = properties]),
             instance_type |-> merged.instance_type]
  ELSE IF variant.instance_type = TypeObject
  THEN [unchanged EXCEPT !.variant = [variant EXCEPT !.instance_type = None,
                                                     !.metadata = None]]
  ELSE unchanged

RECURSIVE hoist_subschema_properties(_, _, _)
hoist_subschema_properties(subschemas, common_obj, instance_type) ==
  IF subschemas = <<>>
  THEN [panic |-> <<>>, subschemas |-> <<>>,
        common_obj |-> common_obj, instance_type |-> instance_type]
  ELSE
    LET first == HoistVariantProperties(Head(subschemas), common_obj, instance_type) IN
    IF first.panic # <<>>
    THEN [panic |-> first.panic, subschemas |-> subschemas,
          common_obj |-> common_obj, instance_type |-> instance_type]
    ELSE
      LET rest == hoist_subschema_properties(Tail(subschemas), first.common_obj,
                                             first.instance_type)
      IN [rest EXCEPT !.subschemas = <<first.variant>> \o rest.subschemas]

\* hoist_subschema_enum_values that does not compare the types
RECURSIVE hoist_subschema_enum_values_untyped(_, _, _)
hoist_subschema_enum_values_untyped(subschemas, common_enum_values, instance_type) ==
  IF subschemas = <<>>
  THEN [panic |-> <<>>, subschemas |-> <<>>,
        common_enum_values |-> common_enum_values, instance_type |-> instance_type]
  ELSE
    LET variant == Head(subschemas) IN
    IF ~IsSchemaBool(variant) /\ IsSome(variant.enum_values)
    THEN
      LET variant_type == variant.instance_type
          conflict == FALSE
          new_type == IF IsSome(variant_type) /\ IsNone(instance_type)
                      THEN variant_type ELSE instance_type
          old_values == IF IsSome(common_enum_values) THEN Unwrap(common_enum_values)
                        ELSE <<>>
      IN IF conflict
         THEN [panic |-> <<"Enum variant set has type but was already defined as">>,
               subschemas |-> subschemas,
               common_enum_values |-> common_enum_values, instance_type |-> instance_type]
         ELSE hoist_subschema_enum_values_untyped(Tail(subschemas),
                Some(old_values \o Unwrap(variant.enum_values)), new_type)
    ELSE
      LET rest == hoist_subschema_enum_values_untyped(Tail(subschemas), common_enum_values,
                                              instance_type)
      IN [rest EXCEPT !.subschemas = <<variant>> \o rest.subschemas]

RECURSIVE hoist_subschema_enum_values(_, _, _)
hoist_subschema_enum_values(subschemas, common_enum_values, instance_type) ==
  IF subschemas = <<>>
  THEN [panic |-> <<>>, subschemas |-> <<>>,
        common_enum_values |-> common_enum_values, instance_type |-> instance_type]
  ELSE
    LET variant == Head(subschemas) IN
    IF ~IsSchemaBool(variant) /\ IsSome(variant.enum_values)
    THEN
      LET variant_type == variant.instance_type
          conflict == /\ IsSome(variant_type) /\ IsSome(instance_type)
                      /\ instance_type # variant_type
          new_type == IF IsSome(variant_type) /\ IsNone(instance_type)
                      THEN variant_type ELSE instance_type
          old_values == IF IsSome(common_enum_values) THEN Unwrap(common_enum_values)
                        ELSE <<>>
      IN IF conflict
         THEN [panic |-> <<"Enum variant set has type but was already defined as">>,
               subschemas |-> subschemas,
               common_enum_values |-> common_enum_values, instance_type |-> instance_type]
         ELSE hoist_subschema_enum_values(Tail(subschemas),
                Some(old_values \o Unwrap(variant.enum_values)), new_type)
    ELSE
      LET rest == hoist_subschema_enum_values(Tail(subschemas), common_enum_values,
                                              instance_type)
      IN [rest EXCEPT !.subschemas = <<variant>> \o rest.subschemas]

\* hoist_subschema_properties called on the oneOf list, the object validation
\* and the type of a schema: the schema as the call leaves it
OneOfHoisted(schema, props) ==
  IF props.panic # <<>> THEN Panic(props.panic, schema)
  ELSE Ok([schema EXCEPT
             !.subschemas = Some([Unwrap(schema.subschemas) EXCEPT
                                    !.one_of = Some(props.subschemas)]),
             !.object = props.common_obj,
             !.instance_type = props.instance_type])

hoist_one_of_properties(schema) ==
  IF IsNone(schema.subschemas) THEN Ok(schema)
  ELSE IF IsNone(Unwrap(schema.subschemas).one_of) THEN Ok(schema)
  ELSE OneOfHoisted(schema,
                    hoist_subschema_properties(Unwrap(Unwrap(schema.subschemas).one_of),
                                               schema.object, schema.instance_type))

\* hoist_subschema_enum_values called on the oneOf list, the enum values and
\* the type of a schema: the schema as the call leaves it
OneOfEnumsHoisted(schema, enums) ==
  IF enums.panic # <<>> THEN Panic(enums.panic, schema)
  ELSE Ok([schema EXCEPT
             !.subschemas = Some([Unwrap(schema.subschemas) EXCEPT
                                    !.one_of = Some(enums.subschemas)]),
             !.enum_values = enums.common_enum_values,
             !.instance_type = enums.instance_type])

hoist_one_of_enum_values(schema) ==
  IF IsNone(schema.subschemas) THEN Ok(schema)
  ELSE IF IsNone(Unwrap(schema.subschemas).one_of) THEN Ok(schema)
  ELSE OneOfEnumsHoisted(schema,
                         hoist_subschema_enum_values(Unwrap(Unwrap(schema.subschemas).one_of),
                                                     schema.enum_values, schema.instance_type))

\* ---------------------------------------------------------------------
\* StructuralSchemaRewriter::transform
\* ---------------------------------------------------------------------
PreserveUnknownFields == "x-kubernetes-preserve-unknown-fields"

\* step 3, the oneOf block: properties, then enum values
NoOneOf(schema) ==
  [panic |-> <<>>, one_of |-> None, object |-> schema.object,
   enum_values |-> schema.enum_values, instance_type |-> schema.instance_type]

OneOfEnumValues(schema, props, enums) ==
  IF props.panic # <<>>
  THEN [NoOneOf(schema) EXCEPT !.panic = props.panic]
  ELSE [panic |-> enums.panic,
        one_of |-> IF enums.subschemas = <<>> THEN None ELSE Some(enums.subschemas),
        object |-> props.common_obj,
        enum_values |-> enums.common_enum_values,
        instance_type |-> enums.instance_type]

OneOfProperties(schema, props) ==
  OneOfEnumValues(schema, props,
                  hoist_subschema_enum_values(props.subschemas, schema.enum_values,
                                              props.instance_type))

HoistOneOf(schema, one_of) ==
  IF IsNone(one_of) THEN NoOneOf(schema)
  ELSE OneOfProperties(schema,
                       hoist_subschema_properties(Unwrap(one_of), schema.object,
                                                  schema.instance_type))

\* step 4, the anyOf block: properties only
HoistAnyOf(any_of, one) ==
  IF IsNone(any_of)
  THEN [panic |-> <<>>, subschemas |-> <<>>, common_obj |-> one.object,
        instance_type |-> one.instance_type]
  ELSE hoist_subschema_properties(Unwrap(any_of), one.object, one.instance_type)

HoistedSubschemas(schema, any_of, one, any) ==
  IF one.panic # <<>> THEN Panic(one.panic, schema)
  ELSE IF any.panic # <<>> THEN Panic(any.panic, schema)
  ELSE Ok([schema EXCEPT
             !.subschemas = Some([any_of |-> IF IsNone(any_of) THEN None
                                             ELSE Some(any.subschemas),
                                  one_of |-> one.one_of]),
             !.object = any.common_obj,
             !.enum_values = one.enum_values,
             !.instance_type = any.instance_type])

HoistAnyOfAfter(schema, any_of, one) ==
  HoistedSubschemas(schema, any_of, one, HoistAnyOf(any_of, one))

\* step 3 and 4: hoisting from the oneOf and anyOf lists that are left
HoistSubschemas(schema) ==
  IF IsNone(schema.subschemas) THEN Ok(schema)
  ELSE HoistAnyOfAfter(schema, Unwrap(schema.subschemas).any_of,
                       HoistOneOf(schema, Unwrap(schema.subschemas).one_of))

\* step 5: flattened maps keep their unknown fields
FixAdditionalProperties(schema) ==
  IF /\ IsSome(schema.object)
     /\ DOMAIN Unwrap(schema.object).properties # {}
     /\ Unwrap(schema.object).additional_properties = Some(SchemaBool(TRUE))
  THEN [schema EXCEPT
          !.object = Some([Unwrap(schema.object) EXCEPT !.additional_properties = None]),
          !.extensions = MapInsert(schema.extensions, PreserveUnknownFields, JTrue)]
  ELSE schema

\* ClearUniqueItems that clears `uniqueItems: true` only
ClearUniqueItemsWhenTrue(schema) ==
  IF IsSome(schema.array) /\ Unwrap(schema.array).unique_items = Some(TRUE)
  THEN [schema EXCEPT !.array = Some([Unwrap(schema.array) EXCEPT !.unique_items = None])]
  ELSE schema

\* step 6: uniqueItems is not supported
ClearUniqueItems(schema) ==
  IF IsSome(schema.array)
  THEN [schema EXCEPT !.array = Some([Unwrap(schema.array) EXCEPT !.unique_items = None])]
  ELSE schema

\* steps 5 and 6 run when the hoisting returned
FixUnsupported(r) ==
  IF Panicked(r) THEN r ELSE Ok(ClearUniqueItems(FixAdditionalProperties(r.schema)))

\* HoistRest with the fixup of flattened maps before the hoisting
HoistRestAfterFixup(r) ==
  IF Panicked(r) THEN r
  ELSE HoistSubschemas(ClearUniqueItems(FixAdditionalProperties(r.schema)))

\* steps 3 and 4 run when hoist_any_of_option_enum returned
HoistRest(r) == IF Panicked(r) THEN r ELSE FixUnsupported(HoistSubschemas(r.schema))

\* step 2 runs when hoist_one_of_enum returned
HoistOption(r) == IF Panicked(r) THEN r ELSE HoistRest(hoist_any_of_option_enum(r.schema))

\* the passes of transform on the decoded node, in their order
RewriteSchema(schema) == HoistOption(hoist_one_of_enum(schema))

\* the node is written back when the passes returned
\* Encode that writes neither `extensions` nor `other`
EncodeNamedFields(j, r) ==
  IF Panicked(r) THEN [panic |-> r.panic, doc |-> j]
  ELSE [panic |-> <<>>, doc |-> [to_value(r.schema) EXCEPT !.extra = NoEntries]]

Encode(j, r) ==
  IF Panicked(r) THEN [panic |-> r.panic, doc |-> j]
  ELSE [panic |-> <<>>, doc |-> to_value(r.schema)]

\* RewriteDecoded that aborts on a node that does not decode
RewriteDecodedOrAbort(j, decoded) ==
  IF IsNone(decoded) THEN [panic |-> <<"schema does not decode">>, doc |-> j]
  ELSE Encode(j, RewriteSchema(Unwrap(decoded)))

\* a node that does not decode is left as it is
RewriteDecoded(j, decoded) ==
  IF IsNone(decoded) THEN [panic |-> <<>>, doc |-> j]
  ELSE Encode(j, RewriteSchema(Unwrap(decoded)))

\* transform on a node whose children have been visited
TransformNode(j) == RewriteDecoded(j, from_value(j))

\* The child slots of a node, in the key order of the JSON map, as
\* schemars::transform::transform_subschemas visits them.
ChildSlots == <<"additionalProperties", "anyOf", "items", "oneOf", "properties">>

Children(j, slot) ==
  CASE slot = "additionalProperties" -> j.additionalProperties
    [] slot = "items" -> j.items
    [] slot = "anyOf" -> IF IsSome(j.anyOf) THEN Unwrap(j.anyOf) ELSE <<>>
    [] slot = "oneOf" -> IF IsSome(j.oneOf) THEN Unwrap(j.oneOf) ELSE <<>>
    [] slot = "properties" -> MapValues(j.properties)

WithChildren(j, slot, children) ==
  CASE slot = "additionalProperties" -> [j EXCEPT !.additionalProperties = children]
    [] slot = "items" -> [j EXCEPT !.items = children]
    [] slot = "anyOf" -> IF IsSome(j.anyOf) THEN [j EXCEPT !.anyOf = Some(children)] ELSE j
    [] slot = "oneOf" -> IF IsSome(j.oneOf) THEN [j EXCEPT !.oneOf = Some(children)] ELSE j
    [] slot = "properties" ->
         [j EXCEPT !.properties =
            [n \in DOMAIN j.properties |->
               children[CHOOSE i \in 1..Len(children) : MapKeys(j.properties)[i] = n]]]

\* The recursive walk.  The document is rewritten in place: when a pass
\* panics, `doc` is the node as the unwinding leaves it, with the children
\* that were visited before the panic already rewritten.
RECURSIVE transform(_)
RECURSIVE TransformEach(_)
RECURSIVE transform_subschemas(_, _)

PrependDoc(first, rest) == [panic |-> rest.panic, docs |-> <<first.doc>> \o rest.docs]

VisitRest(first, nodes) ==
  IF first.panic # <<>>
  THEN [panic |-> first.panic, docs |-> <<first.doc>> \o nodes]
  ELSE PrependDoc(first, TransformEach(nodes))

TransformEach(nodes) ==
  IF nodes = <<>> THEN [panic |-> <<>>, docs |-> <<>>]
  ELSE VisitRest(transform(Head(nodes)), Tail(nodes))

VisitedSlot(i, panic_message, rewritten) ==
  IF panic_message # <<>> THEN [panic |-> panic_message, doc |-> rewritten]
  ELSE transform_subschemas(rewritten, i + 1)

VisitSlot(j, i, visited) ==
  VisitedSlot(i, visited.panic, WithChildren(j, ChildSlots[i], visited.docs))

transform_subschemas(j, i) ==
  IF i > Len(ChildSlots) THEN [panic |-> <<>>, doc |-> j]
  ELSE VisitSlot(j, i, TransformEach(Children(j, ChildSlots[i])))

VisitNode(children) ==
  IF children.panic # <<>> THEN children ELSE TransformNode(children.doc)

\* the children visited after the passes of the node
PassesFirst(r) == IF r.panic # <<>> THEN r ELSE transform_subschemas(r.doc, 1)

\* transform that runs the passes of a node before it visits the children
transform_pre_order(transform_schema) ==
  IF IsJBool(transform_schema) THEN [panic |-> <<>>, doc |-> transform_schema]
  ELSE PassesFirst(TransformNode(transform_schema))

transform(transform_schema) ==
  IF IsJBool(transform_schema) THEN [panic |-> <<>>, doc |-> transform_schema]
  ELSE VisitNode(transform_subschemas(transform_schema, 1))

\* ---------------------------------------------------------------------
\* schema/transform_properties.rs
\* ---------------------------------------------------------------------
\* One iteration of the loop over the subschemas: the subschema as it is
\* left behind and the parent's object validation.
HoistSubschemaProperties(subschema, parent_object, preserve_description) ==
  LET metadata == subschema.metadata
      taken == [subschema EXCEPT !.metadata = None, !.instance_type = None]
  IN
  IF IsNone(subschema.object)
  THEN [panic |-> <<>>, subschema |-> taken, parent_object |-> parent_object]
  ELSE
    LET object == [Unwrap(subschema.object) EXCEPT !.additional_properties = None]
        keys == MapKeys(object.properties)
        \* the tagged case moves the variant's metadata to its only property
        arity_panic == preserve_description /\ Len(keys) # 1
        metadata_panic == /\ preserve_description /\ Len(keys) = 1
                          /\ ~IsSchemaBool(object.properties[keys[1]])
                          /\ IsSome(object.properties[keys[1]].metadata)
        properties ==
          IF preserve_description /\ Len(keys) = 1
             /\ ~IsSchemaBool(object.properties[keys[1]])
          THEN [object.properties EXCEPT ![keys[1]] = [@ EXCEPT !.metadata = metadata]]
          ELSE object.properties
        \* `while let Some((name, Schema::Object(_))) = pop_first()` ends at
        \* the first entry that is not an object schema, which it has popped
        bools == SelectSeq([i \in 1..Len(keys) |-> i],
                           LAMBDA i : IsSchemaBool(properties[keys[i]]))
        popped == IF bools = <<>> THEN Len(keys) ELSE bools[1]
        hoisted == IF bools = <<>> THEN keys ELSE SubSeq(keys, 1, popped - 1)
        parent == IF IsSome(parent_object) THEN Unwrap(parent_object) ELSE ObjectValidation
        conflict == SelectSeq(hoisted, LAMBDA n : /\ n \in DOMAIN parent.properties
                                                  /\ parent.properties[n] # properties[n])
        hoisted_names == {hoisted[i] : i \in 1..Len(hoisted)}
        left_names == {keys[i] : i \in (popped + 1)..Len(keys)}
        left == [taken EXCEPT !.object =
                   Some([object EXCEPT !.properties = [n \in left_names |-> properties[n]]])]
    IN IF arity_panic
       THEN [panic |-> <<"Expecting only a single property defined for the tagged enum variant schema">>,
             subschema |-> subschema, parent_object |-> parent_object]
       ELSE IF metadata_panic
       THEN [panic |-> <<"subschema metadata for property should be empty">>,
             subschema |-> subschema, parent_object |-> parent_object]
       ELSE IF conflict # <<>>
       THEN [panic |-> <<"Properties are defined multiple times with different shapes",
                         conflict[1]>>,
             subschema |-> subschema, parent_object |-> parent_object]
       ELSE [panic |-> <<>>, subschema |-> left,
             parent_object |->
               IF hoisted = <<>> THEN parent_object
               ELSE Some([parent EXCEPT !.properties =
                            [n \in DOMAIN parent.properties \cup hoisted_names |->
                               IF n \in DOMAIN parent.properties THEN parent.properties[n]
                               ELSE properties[n]]])]

\* HoistEachSubschema that leaves a subschema it cannot hoist as it is and
\* goes on with the next
RECURSIVE HoistEachSubschemaSkipping(_, _, _)
HoistEachSubschemaSkipping(subschemas, parent_object, preserve_description) ==
  IF subschemas = <<>>
  THEN [panic |-> <<>>, subschemas |-> <<>>, parent_object |-> parent_object]
  ELSE
    LET first == HoistSubschemaProperties(Head(subschemas), parent_object,
                                          preserve_description)
        rest == HoistEachSubschemaSkipping(Tail(subschemas), first.parent_object,
                                           preserve_description)
    IN [rest EXCEPT !.subschemas = <<first.subschema>> \o rest.subschemas]

RECURSIVE HoistEachSubschema(_, _, _)
HoistEachSubschema(subschemas, parent_object, preserve_description) ==
  IF subschemas = <<>>
  THEN [panic |-> <<>>, subschemas |-> <<>>, parent_object |-> parent_object]
  ELSE
    LET first == HoistSubschemaProperties(Head(subschemas), parent_object,
                                          preserve_description)
    IN IF first.panic # <<>>
       THEN [panic |-> first.panic, subschemas |-> subschemas,
             parent_object |-> parent_object]
       ELSE LET rest == HoistEachSubschema(Tail(subschemas), first.parent_object,
                                           preserve_description)
            IN [rest EXCEPT !.subschemas = <<first.subschema>> \o rest.subschemas]

hoist_properties_for_any_of_subschemas(kube_schema) ==
  IF IsNone(kube_schema.subschemas) THEN Ok(kube_schema)
  ELSE LET both == Unwrap(kube_schema.subschemas) IN
  IF IsNone(both.any_of) /\ IsNone(both.one_of) THEN Ok(kube_schema)
  ELSE IF IsSome(both.any_of) /\ IsSome(both.one_of)
  THEN Panic(<<"oneOf and anyOf are mutually exclusive">>, kube_schema)
  ELSE
    LET preserve_description == IsSome(both.one_of)
        subschemas == IF preserve_description THEN Unwrap(both.one_of)
                      ELSE Unwrap(both.any_of)
        has_null == \E i \in 1..Len(subschemas) : to_value(subschemas[i]) = NullSignature
    IN
    IF Len(subschemas) = 0 THEN Ok(kube_schema)
    ELSE IF Len(subschemas) = 2 /\ has_null THEN Ok(kube_schema)
    ELSE IF \E i \in 1..Len(subschemas) : IsSchemaBool(subschemas[i])
    THEN Panic(<<"oneOf and anyOf variants cannot be of type boolean">>, kube_schema)
    ELSE
      LET each == HoistEachSubschema(subschemas, kube_schema.object, preserve_description)
      IN IF each.panic # <<>> THEN Panic(each.panic, kube_schema)
         ELSE Ok([kube_schema EXCEPT
                    !.instance_type = TypeObject,
                    !.object = each.parent_object,
                    !.subschemas =
                      Some(IF preserve_description
                           THEN [both EXCEPT !.one_of = Some(each.subschemas)]
                           ELSE [both EXCEPT !.any_of = Some(each.subschemas)])])

\* ---------------------------------------------------------------------
\* schema/transforms.rs
\* ---------------------------------------------------------------------
\* the enum or const values a oneOf variant contributes (enum is matched first)
UnitVariantEnums(schema) ==
  IF IsSome(schema.enum_values) THEN Unwrap(schema.enum_values)
  ELSE <<schema.other["const"]>>

\* the variant has neither enum nor const
UnitVariantLacksValues(schema) ==
  IsNone(schema.enum_values) /\ "const" \notin DOMAIN schema.other

\* The panic of the type checks, in the order the lazy iterator reaches them.
UnitVariantsTypePanic(one_of) ==
  LET n == Len(one_of)
      Untyped(i) == IsSchemaBool(one_of[i]) \/ IsNone(one_of[i].instance_type)
      TypePanic(i) == IF IsSchemaBool(one_of[i])
                      THEN <<"oneOf variants can not be of type boolean">>
                      ELSE <<"oneOf variants need to define a type">>
      BadType(i) == Untyped(i) \/ one_of[i].instance_type # one_of[1].instance_type
  IN IF Untyped(1) THEN TypePanic(1)
     ELSE IF \E i \in 2..n : BadType(i)
     THEN LET i == CHOOSE k \in 2..n : BadType(k) /\ \A l \in 2..(k - 1) : ~BadType(l)
          IN IF Untyped(i) THEN TypePanic(i)
             ELSE <<"oneOf variants must all have the same type">>
     ELSE <<>>

\* `extend` has pushed the values of the variants before the one without
\* enum and const when the iterator panics
UnitVariantsExtended(kube_schema, subschemas, one_of, old_enums) ==
  IF \E i \in 1..Len(one_of) : UnitVariantLacksValues(one_of[i])
  THEN LET k == CHOOSE i \in 1..Len(one_of) :
                  /\ UnitVariantLacksValues(one_of[i])
                  /\ \A l \in 1..(i - 1) : ~UnitVariantLacksValues(one_of[l])
       IN Panic(<<"oneOf variant did not provide \"enum\" or \"const\"">>,
                [kube_schema EXCEPT !.enum_values =
                   Some(old_enums \o Flatten([i \in 1..(k - 1) |-> UnitVariantEnums(one_of[i])]))])
  ELSE Ok([kube_schema EXCEPT
             !.enum_values =
               Some(old_enums \o Flatten([i \in 1..Len(one_of) |-> UnitVariantEnums(one_of[i])])),
             !.instance_type = one_of[1].instance_type,
             !.subschemas = Some([subschemas EXCEPT !.one_of = None])])

\* hoist_one_of_enum_with_unit_variants that replaces the enum of the schema
hoist_one_of_enum_with_unit_variants_replacing(kube_schema) ==
  IF IsNone(kube_schema.subschemas) THEN Ok(kube_schema)
  ELSE IF IsNone(Unwrap(kube_schema.subschemas).one_of) THEN Ok(kube_schema)
  ELSE IF Len(Unwrap(Unwrap(kube_schema.subschemas).one_of)) = 0 THEN Ok(kube_schema)
  ELSE IF UnitVariantsTypePanic(Unwrap(Unwrap(kube_schema.subschemas).one_of)) # <<>>
  THEN Panic(UnitVariantsTypePanic(Unwrap(Unwrap(kube_schema.subschemas).one_of)), kube_schema)
  ELSE UnitVariantsExtended(kube_schema, Unwrap(kube_schema.subschemas),
                            Unwrap(Unwrap(kube_schema.subschemas).one_of), <<>>)

hoist_one_of_enum_with_unit_variants(kube_schema) ==
  IF IsNone(kube_schema.subschemas) THEN Ok(kube_schema)
  ELSE IF IsNone(Unwrap(kube_schema.subschemas).one_of) THEN Ok(kube_schema)
  ELSE IF Len(Unwrap(Unwrap(kube_schema.subschemas).one_of)) = 0 THEN Ok(kube_schema)
  ELSE IF UnitVariantsTypePanic(Unwrap(Unwrap(kube_schema.subschemas).one_of)) # <<>>
  THEN Panic(UnitVariantsTypePanic(Unwrap(Unwrap(kube_schema.subschemas).one_of)), kube_schema)
  ELSE UnitVariantsExtended(kube_schema, Unwrap(kube_schema.subschemas),
                            Unwrap(Unwrap(kube_schema.subschemas).one_of),
                            IF IsSome(kube_schema.enum_values)
                            THEN Unwrap(kube_schema.enum_values) ELSE <<>>)

\* ---------------------------------------------------------------------
\* schema/transform_optional_enum_with_null.rs
\* ---------------------------------------------------------------------
\* remove_optional_enum_null_variant without the check of the enum's length
remove_every_null_variant(kube_schema) ==
  IF IsNone(kube_schema.enum_values) THEN kube_schema
  ELSE
    LET enum_values == Unwrap(kube_schema.enum_values)
        nullable == /\ "nullable" \in DOMAIN kube_schema.extensions
                    /\ kube_schema.extensions["nullable"] = JTrue
    IN IF nullable
       THEN [kube_schema EXCEPT !.enum_values =
               Some(SelectSeq(enum_values, LAMBDA enum_value : enum_value # JNull))]
       ELSE kube_schema

remove_optional_enum_null_variant(kube_schema) ==
  IF IsNone(kube_schema.enum_values) THEN kube_schema
  ELSE
    LET enum_values == Unwrap(kube_schema.enum_values)
        nullable == /\ "nullable" \in DOMAIN kube_schema.extensions
                    /\ kube_schema.extensions["nullable"] = JTrue
    IN IF nullable /\ Len(enum_values) > 1
       THEN [kube_schema EXCEPT !.enum_values =
               Some(SelectSeq(enum_values, LAMBDA enum_value : enum_value # JNull))]
       ELSE kube_schema

\* ---------------------------------------------------------------------
\* The documents the operations are applied to
\* ---------------------------------------------------------------------
MaxVariants == 2
MaxEnumLen == 3
MaxRuns == 2

TypeOf(t) == Some(Single(t))
StringSchema == [JObj EXCEPT !.type = TypeOf("string")]
IntegerSchema == [JObj EXCEPT !.type = TypeOf("integer")]
Described(j, d) == [j EXCEPT !.description = Some(d)]
EnumOf(t, values) == [JObj EXCEPT !.type = TypeOf(t), !.enum = Some(values)]
ConstOf(t, value) == [JObj EXCEPT !.type = TypeOf(t), !.extra = [const |-> value]]
Struct(properties) ==
  [JObj EXCEPT !.type = TypeOf("object"), !.properties = properties,
               !.required = DOMAIN properties]

\* a doc-commented enum, before and after its own rewrite
NestedOneOf ==
  [Described(JObj, "nested") EXCEPT
     !.oneOf = Some(<<EnumOf("string", <<"C">>), Described(EnumOf("string", <<"A">>), "first")>>)]
NestedHoisted == Described(EnumOf("string", <<"C", "A">>), "nested")

UniqueArray == [JObj EXCEPT !.type = TypeOf("array"), !.items = Some(StringSchema),
                            !.uniqueItems = Some(TRUE)]
\* maxItems does not fit u32: the node does not decode
UndecodableArray == [JObj EXCEPT !.type = TypeOf("array"), !.uniqueItems = Some(FALSE),
                          !.maxItems = Some(-1)]

\* nodes that serve as entries of a oneOf list
OneOfVariants ==
  { EnumOf("string", <<"C", "D">>),
    Described(EnumOf("string", <<"A">>), "first"),
    Described(ConstOf("string", "B"), "second"),
    [ConstOf("string", "B") EXCEPT !.enum = Some(<<"A">>)],
    EnumOf("integer", <<"A">>),
    [JObj EXCEPT !.enum = Some(<<"A">>)],
    StringSchema,
    JBool(TRUE),
    Described(Struct([a |-> StringSchema]), "tag a"),
    Struct([a |-> Described(StringSchema, "field"), b |-> IntegerSchema]),
    Described([JObj EXCEPT !.type = TypeOf("object")], "empty") }

\* nodes that serve as entries of an anyOf list
AnyOfVariants ==
  { NullSignature,
    [NullSignature EXCEPT !.type = TypeOf("object")],
    Described([JObj EXCEPT !.type = TypeOf("object")], "empty"),
    Struct([a |-> StringSchema]),
    Described(Struct([a |-> StringSchema]), "one"),
    Described(Struct([a |-> IntegerSchema]), "int"),
    Struct([a |-> Described(StringSchema, "field")]),
    [Struct([b |-> NestedOneOf]) EXCEPT !.additionalProperties = Some(JBool(TRUE))],
    Struct([b |-> NestedHoisted]),
    Struct([a |-> JBool(TRUE), b |-> StringSchema]),
    Described(EnumOf("string", <<"A", "B">>), "plain"),
    NestedOneOf,
    StringSchema,
    JBool(FALSE) }

RECURSIVE SeqsUpTo(_, _)
SeqsUpTo(S, n) ==
  IF n = 0 THEN {<<>>}
  ELSE LET shorter == SeqsUpTo(S, n - 1)
       IN shorter \cup {Append(q, x) : q \in {r \in shorter : Len(r) = n - 1}, x \in S}

\* the keywords a root carries besides its unions
Roots ==
  { JObj,
    [Described(JObj, "root") EXCEPT !.default = Some(JNull), !.extra = [nullable |-> JFalse]],
    [EnumOf("integer", <<"B">>) EXCEPT !.extra = [title |-> "T"]],
    [Struct([a |-> StringSchema]) EXCEPT !.additionalProperties = Some(JBool(TRUE))] }

EnumDocuments ==
  { [root EXCEPT !.enum = Some(values), !.extra = extra] :
      root \in {JObj, Described(JObj, "root")},
      values \in SeqsUpTo({"A", "B", JNull}, MaxEnumLen),
      extra \in {NoEntries, [nullable |-> JTrue], [nullable |-> JFalse]} }

OneOfDocuments ==
  { [root EXCEPT !.oneOf = Some(variants)] :
      root \in Roots, variants \in SeqsUpTo(OneOfVariants, MaxVariants) }

AnyOfDocuments ==
  { [root EXCEPT !.anyOf = Some(variants)] :
      root \in Roots, variants \in SeqsUpTo(AnyOfVariants, MaxVariants) }

BothDocuments ==
  { [root EXCEPT !.oneOf = Some(one), !.anyOf = Some(any)] :
      root \in {JObj, Described(JObj, "root")},
      one \in SeqsUpTo({EnumOf("string", <<"C", "D">>), Described(Struct([a |-> StringSchema]), "tag a")}, 1),
      any \in SeqsUpTo({NullSignature, Struct([b |-> StringSchema])}, 1) }

\* flattened maps
MapDocuments ==
  { [JObj EXCEPT !.type = type, !.properties = properties,
                 !.additionalProperties = additional, !.extra = extra] :
      type \in {None, TypeOf("object")},
      properties \in {NoEntries, [a |-> StringSchema], [a |-> UniqueArray, b |-> JBool(TRUE)]},
      additional \in {None, Some(JBool(TRUE)), Some(JBool(FALSE)), Some(StringSchema), Some(UniqueArray)},
      extra \in {NoEntries, (PreserveUnknownFields :> JFalse)} }

\* nodes nested under properties and items
NestedSchemas ==
  { UniqueArray, UndecodableArray, NestedOneOf,
    [UniqueArray EXCEPT !.uniqueItems = Some(FALSE)],
    [UniqueArray EXCEPT !.items = Some(UndecodableArray)],
    [JObj EXCEPT !.oneOf = Some(<<StringSchema>>)],
    [JObj EXCEPT !.anyOf = Some(<<Struct([a |-> UniqueArray]), Struct([b |-> StringSchema])>>)] }

NestedDocuments ==
  { [root EXCEPT !.properties = properties, !.items = items] :
      root \in { [JObj EXCEPT !.type = TypeOf("object")],
                 [JObj EXCEPT !.uniqueItems = Some(TRUE)],
                 [JObj EXCEPT !.uniqueItems = Some(TRUE), !.maxItems = Some(-1)],
                 [JObj EXCEPT !.oneOf = Some(<<JBool(TRUE)>>)] },
      properties \in {NoEntries} \cup {[a |-> x] : x \in NestedSchemas}
                      \cup {[a |-> x, b |-> y] : x \in NestedSchemas, y \in NestedSchemas},
      items \in {None} \cup {Some(x) : x \in NestedSchemas} }

\* maps whose properties all come from the entries of their anyOf
FlattenedUnionDocuments ==
  { [JObj EXCEPT !.additionalProperties = Some(JBool(TRUE)), !.anyOf = Some(variants)] :
      variants \in SeqsUpTo({ Struct([a |-> StringSchema]),
                              [Struct([b |-> IntegerSchema]) EXCEPT
                                 !.additionalProperties = Some(JBool(TRUE))],
                              [JObj EXCEPT !.properties = [a |-> StringSchema]] },
                            MaxVariants) }

\* an optional value whose anyOf entry carries keywords of every group
FullEntry ==
  [Described(EnumOf("string", <<"A">>), "entry") EXCEPT
     !.default = Some("A"), !.format = Some("date"), !.items = Some(StringSchema),
     !.required = {"a"}, !.properties = [a |-> StringSchema],
     !.extra = [title |-> "E"]]

OptionDocuments ==
  { [root EXCEPT !.anyOf = Some(entries)] :
      root \in Roots,
      entries \in {<<FullEntry, NullSignature>>, <<NullSignature, FullEntry>>} }

Documents ==
  EnumDocuments \cup OneOfDocuments \cup AnyOfDocuments \cup BothDocuments
    \cup MapDocuments \cup NestedDocuments \cup FlattenedUnionDocuments
    \cup OptionDocuments \cup {JBool(TRUE)}

\* ---------------------------------------------------------------------
\* The state machine
\* ---------------------------------------------------------------------
VARIABLES
  input,        \* the document as the caller built it
  doc,          \* the caller's document, which transform rewrites in place
  kube_schema,  \* the decoded SchemaObject the single passes work on
  op,           \* the operation applied last
  panic,        \* the panic that ended the operation, <<>> when it returned
  runs,         \* the number of transform runs on doc
  outputs       \* the document after each completed run

vars == <<input, doc, kube_schema, op, panic, runs, outputs>>

Init ==
  /\ input \in Documents
  /\ doc = input
  /\ kube_schema = from_value(input)
  /\ op = "new"
  /\ panic = <<>>
  /\ runs = 0
  /\ outputs = <<>>

\* StructuralSchemaRewriter::transform on the caller's document
Transform ==
  /\ op \in {"new", "transform"}
  /\ panic = <<>>
  /\ runs < MaxRuns
  /\ LET r == transform(doc) IN
       /\ doc' = r.doc
       /\ panic' = r.panic
       /\ outputs' = IF r.panic = <<>> THEN Append(outputs, r.doc) ELSE outputs
  /\ op' = "transform"
  /\ runs' = runs + 1
  /\ UNCHANGED <<input, kube_schema>>

\* a single pass on the decoded schema
ApplyPass(name, result) ==
  /\ op = "new"
  /\ IsSome(kube_schema)
  /\ kube_schema' = Some(result.schema)
  /\ panic' = result.panic
  /\ op' = name
  /\ UNCHANGED <<input, doc, runs, outputs>>

HoistOneOfEnum ==
  ApplyPass("hoist_one_of_enum", hoist_one_of_enum(Unwrap(kube_schema)))

HoistAnyOfOptionEnum ==
  ApplyPass("hoist_any_of_option_enum", hoist_any_of_option_enum(Unwrap(kube_schema)))

HoistPropertiesForAnyOfSubschemas ==
  ApplyPass("hoist_properties_for_any_of_subschemas",
            hoist_properties_for_any_of_subschemas(Unwrap(kube_schema)))

RemoveOptionalEnumNullVariant ==
  ApplyPass("remove_optional_enum_null_variant",
            Ok(remove_optional_enum_null_variant(Unwrap(kube_schema))))

HoistSubschemaPropertiesOfOneOf ==
  ApplyPass("hoist_subschema_properties", hoist_one_of_properties(Unwrap(kube_schema)))

HoistSubschemaEnumValuesOfOneOf ==
  ApplyPass("hoist_subschema_enum_values", hoist_one_of_enum_values(Unwrap(kube_schema)))

HoistOneOfEnumWithUnitVariants ==
  ApplyPass("hoist_one_of_enum_with_unit_variants",
            hoist_one_of_enum_with_unit_variants(Unwrap(kube_schema)))

Next ==
  \/ Transform
  \/ HoistOneOfEnum
  \/ HoistAnyOfOptionEnum
  \/ HoistPropertiesForAnyOfSubschemas
  \/ RemoveOptionalEnumNullVariant
  \/ HoistSubschemaPropertiesOfOneOf
  \/ HoistSubschemaEnumValuesOfOneOf
  \/ HoistOneOfEnumWithUnitVariants

Spec == Init /\ [][Next]_vars

TypeOK ==
  /\ input \in Documents
  /\ runs \in 0..MaxRuns
  /\ Len(outputs) <= runs

\* ---------------------------------------------------------------------
\* Properties
\* ---------------------------------------------------------------------
FirstRunDone == op = "transform" /\ runs = 1 /\ panic = <<>>

\* C1: running the pipeline on the output of a completed run completes and
\* returns the same document (transform(transform(d)) = transform(d)).
C1_Idempotent ==
  (op = "transform" /\ runs = 2) => (panic = <<>> /\ doc = outputs[1])

\* the values the oneOf variants of a JSON node declare, in variant order
RECURSIVE DeclaredValues(_)
DeclaredValues(variants) ==
  IF variants = <<>> THEN <<>>
  ELSE LET v == Head(variants)
       IN (IF IsSome(v.enum) THEN Unwrap(v.enum) ELSE <<v.extra["const"]>>)
            \o DeclaredValues(Tail(variants))

\* a non-empty oneOf of object schemas of one type that carry enum or const
EnumOnlyOneOf(j) ==
  /\ ~IsJBool(j)
  /\ IsSome(j.oneOf)
  /\ Unwrap(j.oneOf) # <<>>
  /\ \A i \in 1..Len(Unwrap(j.oneOf)) :
       LET v == Unwrap(j.oneOf)[i] IN
         /\ ~IsJBool(v)
         /\ IsSome(v.type)
         /\ v.type = Unwrap(j.oneOf)[1].type
         /\ (IsSome(v.enum) \/ "const" \in DOMAIN v.extra)

\* C2: hoist_one_of_enum on a non-empty oneOf of same-typed enum/const
\* variants returns a schema without oneOf, whose type is the common type and
\* whose enum is the root's previous values followed by the variants' values
\* in variant order (enum before const); the root's description is kept.
C2_OneOfEnumHoisted ==
  (op = "hoist_one_of_enum" /\ EnumOnlyOneOf(input)) =>
    LET out == to_value(Unwrap(kube_schema))
        previous == IF IsSome(input.enum) THEN Unwrap(input.enum) ELSE <<>>
    IN /\ panic = <<>>
       /\ out.oneOf = None
       /\ out.type = Unwrap(input.oneOf)[1].type
       /\ out.enum = Some(previous \o DeclaredValues(Unwrap(input.oneOf)))
       /\ out.description = input.description
       /\ out = [input EXCEPT !.oneOf = None, !.type = out.type, !.enum = out.enum]

C2_Witness ==
  /\ op = "hoist_one_of_enum"
  /\ EnumOnlyOneOf(input)
  /\ IsSome(input.enum) /\ IsSome(input.type)
  /\ input.type # Unwrap(input.oneOf)[1].type
  /\ \E i \in 1..Len(Unwrap(input.oneOf)) :
       /\ IsSome(Unwrap(input.oneOf)[i].enum)
       /\ "const" \in DOMAIN Unwrap(input.oneOf)[i].extra
  /\ \E i \in 1..Len(Unwrap(input.oneOf)) : IsSome(Unwrap(input.oneOf)[i].description)

\* the anyOf of the node has two entries and exactly one is the null signature
OptionalAnyOf(j) ==
  /\ ~IsJBool(j)
  /\ IsSome(j.anyOf)
  /\ Len(Unwrap(j.anyOf)) = 2
  /\ (Unwrap(j.anyOf)[1] = NullSignature) # (Unwrap(j.anyOf)[2] = NullSignature)

OtherEntry(j) ==
  IF Unwrap(j.anyOf)[1] = NullSignature THEN Unwrap(j.anyOf)[2] ELSE Unwrap(j.anyOf)[1]

StructVariants(variants) ==
  /\ variants # <<>>
  /\ \A i \in 1..Len(variants) :
       /\ ~IsJBool(variants[i])
       /\ variants[i].type = TypeOf("object")
       /\ DOMAIN variants[i].properties # {}

\* same-named properties of the variants and of the parent have one schema
SameShapes(j, variants) ==
  \A i \in 1..Len(variants) : \A n \in DOMAIN variants[i].properties :
    /\ n \in DOMAIN j.properties => j.properties[n] = variants[i].properties[n]
    /\ \A k \in 1..Len(variants) :
         n \in DOMAIN variants[k].properties =>
           variants[k].properties[n] = variants[i].properties[n]

\* the properties of the parent and of all variants, each as the walk leaves it
UnionOfProperties(j, variants) ==
  LET names == DOMAIN j.properties
                 \cup UNION {DOMAIN variants[i].properties : i \in 1..Len(variants)}
      Source(n) == IF n \in DOMAIN j.properties THEN j.properties[n]
                   ELSE LET i == CHOOSE k \in 1..Len(variants) :
                                   n \in DOMAIN variants[k].properties
                        IN variants[i].properties[n]
  IN [n \in names |-> transform(Source(n)).doc]

PropertiesHoisted(j, variants, out, outVariants) ==
  /\ panic = <<>>
  /\ \A i \in 1..Len(outVariants) :
       IsJBool(outVariants[i]) \/ DOMAIN outVariants[i].properties = {}
  /\ out.properties = UnionOfProperties(j, variants)

\* a decodable node that is an object, or declares no type
StructParent(j) ==
  /\ ~IsJBool(j) /\ Decodes(j)
  /\ j.type \in {None, TypeOf("object")}

\* C4: on a node whose oneOf or anyOf entries are structs with identical
\* schemas for same-named properties, the pipeline completes, no variant of
\* the output carries properties and the parent's properties are the union of
\* the parent's and the variants' properties - for oneOf and for anyOf, with
\* or without descriptions on the variants.
C4_StructUnionsHoisted ==
  /\ ( /\ op = "transform" /\ runs = 1 /\ StructParent(input)
       /\ IsSome(input.oneOf) /\ IsNone(input.anyOf)
       /\ StructVariants(Unwrap(input.oneOf))
       /\ SameShapes(input, Unwrap(input.oneOf)) )
     => PropertiesHoisted(input, Unwrap(input.oneOf), doc,
                          IF IsSome(doc.oneOf) THEN Unwrap(doc.oneOf) ELSE <<>>)
  /\ ( /\ op = "transform" /\ runs = 1 /\ StructParent(input)
       /\ IsSome(input.anyOf) /\ IsNone(input.oneOf)
       /\ StructVariants(Unwrap(input.anyOf))
       /\ SameShapes(input, Unwrap(input.anyOf)) )
     => PropertiesHoisted(input, Unwrap(input.anyOf), doc,
                          IF IsSome(doc.anyOf) THEN Unwrap(doc.anyOf) ELSE <<>>)

\* an anyOf that hoist_properties_for_any_of_subschemas works on as untagged
UntaggedUnion(j) ==
  /\ ~IsJBool(j) /\ Decodes(j)
  /\ IsSome(j.anyOf) /\ IsNone(j.oneOf)
  /\ Unwrap(j.anyOf) # <<>>
  /\ \A i \in 1..Len(Unwrap(j.anyOf)) : ~IsJBool(Unwrap(j.anyOf)[i])
  /\ ~(Len(Unwrap(j.anyOf)) = 2 /\ \E i \in 1..2 : Unwrap(j.anyOf)[i] = NullSignature)

\* the names an entry brings with a schema other than the one the parent
\* holds by then: its own, or one hoisted from an earlier entry
ConflictingNames(j) ==
  LET variants == Unwrap(j.anyOf)
      AllObjects(v) == \A n \in DOMAIN v.properties : ~IsJBool(v.properties[n])
  IN { n \in {NameOrder[x] : x \in 1..Len(NameOrder)} :
         \E i \in 1..Len(variants) :
           /\ n \in DOMAIN variants[i].properties
           /\ \/ /\ n \in DOMAIN j.properties
                 /\ j.properties[n] # variants[i].properties[n]
              \/ \E k \in 1..(i - 1) :
                   /\ AllObjects(variants[k])
                   /\ n \in DOMAIN variants[k].properties
                   /\ variants[k].properties[n] # variants[i].properties[n] }

\* C5: property hoisting aborts, naming the property, whenever an entry
\* brings a property that the parent already holds with a schema that is not
\* exactly equal; without such a property it does not abort.
C5_ConflictsAbort ==
  (op = "hoist_properties_for_any_of_subschemas" /\ UntaggedUnion(input)) =>
    IF ConflictingNames(input) # {}
    THEN Len(panic) = 2 /\ panic[2] \in ConflictingNames(input)
    ELSE panic = <<>>

\* C6: a decodable node with non-empty properties and additionalProperties
\* true leaves the pipeline without additionalProperties and with
\* x-kubernetes-preserve-unknown-fields = true, whatever flag it carried.
C6_FlattenedMapFixed ==
  ( /\ FirstRunDone /\ ~IsJBool(input) /\ Decodes(input)
    /\ DOMAIN input.properties # {}
    /\ input.additionalProperties = Some(JBool(TRUE)) )
  => /\ doc.additionalProperties = None
     /\ PreserveUnknownFields \in DOMAIN doc.extra
     /\ doc.extra[PreserveUnknownFields] = JTrue

\* every schema node of a document, through the child slots of the walk
RECURSIVE AllNodes(_)
AllNodes(j) ==
  IF IsJBool(j) THEN {j}
  ELSE LET Under(slot) == UNION { AllNodes(Children(j, slot)[i]) :
                                    i \in 1..Len(Children(j, slot)) }
       IN {j} \cup UNION { Under(ChildSlots[s]) : s \in 1..Len(ChildSlots) }

RunDone == op = "transform" /\ panic = <<>>

\* C7 as stated: after a completed run no node of the output carries
\* uniqueItems, whatever else the node carries.
C7_NoUniqueItemsAnywhere ==
  RunDone => \A n \in AllNodes(doc) : IsJBool(n) \/ n.uniqueItems = None

\* C7 as amended: after a completed run no node of the output that decodes
\* into SchemaObject carries uniqueItems (a node that does not decode is
\* left as it is, uniqueItems included).
C7_NoUniqueItemsOnDecodedNodes ==
  RunDone => \A n \in AllNodes(doc) :
               (~IsJBool(n) /\ Decodes(n)) => n.uniqueItems = None

C7_Witness ==
  /\ FirstRunDone
  /\ \E n \in AllNodes(input) :
       n # input /\ ~IsJBool(n) /\ Decodes(n) /\ n.uniqueItems = Some(FALSE)
  /\ \E n \in AllNodes(doc) : ~IsJBool(n) /\ ~Decodes(n) /\ IsSome(n.uniqueItems)

RECURSIVE WithoutNulls(_)
WithoutNulls(values) ==
  IF values = <<>> THEN <<>>
  ELSE IF Head(values) = JNull THEN WithoutNulls(Tail(values))
  ELSE <<Head(values)>> \o WithoutNulls(Tail(values))

NullableEnum(j) ==
  /\ ~IsJBool(j) /\ IsSome(j.enum)
  /\ "nullable" \in DOMAIN j.extra /\ j.extra["nullable"] = JTrue

RejectedOneOf(j) ==
  /\ ~IsJBool(j) /\ IsSome(j.oneOf) /\ Unwrap(j.oneOf) # <<>>
  /\ LET variants == Unwrap(j.oneOf)
         Objects == {i \in 1..Len(variants) : ~IsJBool(variants[i])}
     IN \/ Objects # 1..Len(variants)
        \/ \E i \in Objects : IsNone(variants[i].type)
        \/ \E i, k \in Objects : variants[i].type # variants[k].type
        \/ \E i \in Objects : /\ IsNone(variants[i].enum)
                              /\ "const" \notin DOMAIN variants[i].extra

C10_AbortLeavesDocument ==
  (op = "transform" /\ panic # <<>>) =>
    doc = (IF runs = 1 THEN input ELSE outputs[runs - 1])

\* the keywords of a node itself: the node without its child slots
OwnKeywords(j) ==
  [j EXCEPT !.additionalProperties = None, !.anyOf = None, !.items = None,
            !.oneOf = None, !.properties = NoEntries]

\* the children of a slot, each as its own visit leaves it
VisitedChildren(j, slot) ==
  [i \in 1..Len(Children(j, slot)) |-> transform(Children(j, slot)[i]).doc]

SkippedRoot == op = "transform" /\ runs = 1 /\ ~IsJBool(input) /\ ~Decodes(input)

\* C11: a node that does not decode into SchemaObject keeps its own keywords
\* exactly; the run aborts only with the abort of the visit of one of its
\* descendants, and when it completes every child slot holds the children as
\* their own visits rewrote them.
C11_SoftSkip ==
  SkippedRoot =>
    /\ OwnKeywords(doc) = OwnKeywords(input)
    /\ panic # <<>> => \E n \in AllNodes(input) \ {input} : transform(n).panic = panic
    /\ panic = <<>> =>
         \A s \in 1..Len(ChildSlots) :
           /\ Len(Children(doc, ChildSlots[s])) = Len(Children(input, ChildSlots[s]))
           /\ \A i \in 1..Len(Children(doc, ChildSlots[s])) :
                Children(doc, ChildSlots[s])[i] = VisitedChildren(input, ChildSlots[s])[i]

\* a skipped root that keeps uniqueItems while a sibling property lost it
C11_Witness ==
  /\ SkippedRoot /\ panic = <<>>
  /\ IsSome(input.uniqueItems) /\ doc.uniqueItems = input.uniqueItems
  /\ input.maxItems = Some(-1)
  /\ \E n \in DOMAIN input.properties :
       /\ input.properties[n].uniqueItems = Some(TRUE)
       /\ doc.properties[n].uniqueItems = None

\* an untagged union whose entries are all typed object
ObjectUnion(j) ==
  /\ UntaggedUnion(j)
  /\ \A i \in 1..Len(Unwrap(j.anyOf)) : Unwrap(j.anyOf)[i].type = TypeOf("object")

\* what is left of an entry: nothing but its required set and the keywords
\* the pass does not know
Residual(variant) ==
  /\ variant.description = None
  /\ variant.type = None
  /\ variant.properties = NoEntries
  /\ variant.additionalProperties = None

\* C12: when hoist_properties_for_any_of_subschemas returns on an anyOf of
\* object-typed entries, the anyOf keeps its length and order, every entry
\* keeps its required set and has no description, type, properties or
\* additionalProperties (an entry of type and description only becomes {}),
\* the root has type object and its own description, and every property of an
\* entry is a property of the root with the schema it had in the entry.
C12_ResidualVariants ==
  (op = "hoist_properties_for_any_of_subschemas" /\ ObjectUnion(input) /\ panic = <<>>) =>
    LET out == to_value(Unwrap(kube_schema))
        ins == Unwrap(input.anyOf)
    IN /\ IsSome(out.anyOf)
       /\ Len(Unwrap(out.anyOf)) = Len(ins)
       /\ \A i \in 1..Len(ins) :
            /\ Residual(Unwrap(out.anyOf)[i])
            /\ Unwrap(out.anyOf)[i].required = ins[i].required
            /\ [ins[i] EXCEPT !.description = None] = [JObj EXCEPT !.type = TypeOf("object")]
                 => Unwrap(out.anyOf)[i] = JObj
            /\ \A n \in DOMAIN ins[i].properties :
                 /\ n \in DOMAIN out.properties
                 /\ out.properties[n] = ins[i].properties[n]
       /\ out.type = TypeOf("object")
       /\ out.description = input.description

\* a decodable node with a non-empty oneOf and a non-empty anyOf
BothUnions(j) ==
  /\ ~IsJBool(j) /\ Decodes(j)
  /\ IsSome(j.oneOf) /\ Unwrap(j.oneOf) # <<>>
  /\ IsSome(j.anyOf) /\ Unwrap(j.anyOf) # <<>>

\* C13: the pipeline aborts on every decodable node that carries a non-empty
\* oneOf together with a non-empty anyOf.
C13_BothUnionsAbort ==
  (op = "transform" /\ runs = 1 /\ BothUnions(input)) => panic # <<>>

\* the entries of the oneOf and anyOf lists of a node
Variants(j) ==
  (IF IsSome(j.oneOf) THEN Unwrap(j.oneOf) ELSE <<>>)
    \o (IF IsSome(j.anyOf) THEN Unwrap(j.anyOf) ELSE <<>>)

\* C14: after a completed run no decodable node of the output has
\* additionalProperties = true together with properties, whether the
\* properties were its own or hoisted from its variants in the same run, and
\* no variant of such a node carries additionalProperties.
C14_NoMapWithProperties ==
  RunDone => \A n \in AllNodes(doc) :
    (~IsJBool(n) /\ Decodes(n)) =>
      /\ ~(n.additionalProperties = Some(JBool(TRUE)) /\ DOMAIN n.properties # {})
      /\ \A i \in 1..Len(Variants(n)) :
           IsJBool(Variants(n)[i]) \/ Variants(n)[i].additionalProperties = None

\* a map without own properties whose anyOf entries brought properties, one
\* of the entries declaring additionalProperties itself
C14_Witness ==
  /\ FirstRunDone /\ ~IsJBool(input) /\ Decodes(input)
  /\ input.additionalProperties = Some(JBool(TRUE))
  /\ input.properties = NoEntries
  /\ \E i \in 1..Len(Variants(input)) :
       Variants(input)[i].additionalProperties = Some(JBool(TRUE))
  /\ DOMAIN doc.properties = {"a", "b"}
  /\ doc.additionalProperties = None

\* the node with every child replaced by what the child's own visit returns
RECURSIVE NormalizedFrom(_, _)
NormalizedFrom(j, s) ==
  IF s > Len(ChildSlots) THEN j
  ELSE NormalizedFrom(WithChildren(j, ChildSlots[s], VisitedChildren(j, ChildSlots[s])),
                      s + 1)

\* the panics of the visits of the children, in the order of the walk
ChildPanics(j) ==
  SelectSeq(Flatten([s \in 1..Len(ChildSlots) |->
                       [i \in 1..Len(Children(j, ChildSlots[s])) |->
                          transform(Children(j, ChildSlots[s])[i]).panic]]),
            LAMBDA p : p # <<>>)

NullEntries(j) ==
  IF IsNone(j.anyOf) THEN {}
  ELSE {i \in 1..Len(Unwrap(j.anyOf)) : Unwrap(j.anyOf)[i] = NullSignature}

TwoEntries(j) == IsSome(j.anyOf) /\ Len(Unwrap(j.anyOf)) = 2

\* C16: hoist_any_of_option_enum returns the schema as it was when anyOf is
\* absent, has not exactly two entries, or holds no entry equal to
\* {"enum":[null],"nullable":true}; it aborts when both of two entries equal
\* it; and it returns a changed schema only for two entries of which exactly
\* one equals it.
C16_OptionApplicability ==
  (op = "hoist_any_of_option_enum" /\ ~IsJBool(input)) =>
    LET out == to_value(Unwrap(kube_schema)) IN
    /\ (~TwoEntries(input) \/ NullEntries(input) = {}) => (panic = <<>> /\ out = input)
    /\ (TwoEntries(input) /\ NullEntries(input) = {1, 2}) => panic # <<>>
    /\ (panic = <<>> /\ out # input) =>
         (TwoEntries(input) /\ Cardinality(NullEntries(input)) = 1)

C16_Witness ==
  /\ op = "hoist_any_of_option_enum" /\ ~IsJBool(input)
  /\ TwoEntries(input) /\ NullEntries(input) = {1, 2}
  /\ panic = <<"Too many nulls, not enough drinks">>

\* a oneOf of object entries that each declare one property, an object schema
TaggedUnion(j) ==
  /\ ~IsJBool(j) /\ Decodes(j)
  /\ IsSome(j.oneOf) /\ IsNone(j.anyOf)
  /\ Unwrap(j.oneOf) # <<>>
  /\ \A i \in 1..Len(Unwrap(j.oneOf)) :
       LET v == Unwrap(j.oneOf)[i] IN
         /\ ~IsJBool(v)
         /\ Cardinality(DOMAIN v.properties) = 1
         /\ \A n \in DOMAIN v.properties : ~IsJBool(v.properties[n])

\* every property of every entry is a property of `out` with the entry's
\* description (tagged) or as the walk left it inside the entry (untagged)
DescriptionsMoved(variants, out) ==
  \A i \in 1..Len(variants) : \A n \in DOMAIN variants[i].properties :
    /\ n \in DOMAIN out.properties
    /\ out.properties[n] = [variants[i].properties[n] EXCEPT
                              !.description = variants[i].description]

DescriptionsDropped(variants, out) ==
  \A i \in 1..Len(variants) : \A n \in DOMAIN variants[i].properties :
    n \in DOMAIN out.properties => out.properties[n] = transform(variants[i].properties[n]).doc

\* C17, for the pass hoist_properties_for_any_of_subschemas alone: a oneOf
\* entry's description becomes the description of its property at the root;
\* the properties of anyOf entries reach the root as they were in the entry.
C17_PassDescriptions ==
  /\ (op = "hoist_properties_for_any_of_subschemas" /\ TaggedUnion(input) /\ panic = <<>>)
       => DescriptionsMoved(Unwrap(input.oneOf), to_value(Unwrap(kube_schema)))
  /\ (op = "hoist_properties_for_any_of_subschemas" /\ UntaggedUnion(input) /\ panic = <<>>)
       => \A i \in 1..Len(Unwrap(input.anyOf)) :
            \A n \in DOMAIN Unwrap(input.anyOf)[i].properties :
              \* a property the pass has taken out of the entry
              n \notin DOMAIN Unwrap(to_value(Unwrap(kube_schema)).anyOf)[i].properties =>
                \/ IsJBool(Unwrap(input.anyOf)[i].properties[n])
                \/ /\ n \in DOMAIN to_value(Unwrap(kube_schema)).properties
                   /\ to_value(Unwrap(kube_schema)).properties[n]
                        = Unwrap(input.anyOf)[i].properties[n]

\* C17: property hoisting moves the description of a oneOf entry onto its
\* single property at the root, and never attaches the description of an
\* anyOf entry to a property: the hoisted properties of anyOf entries are the
\* schemas they were inside the entry.  Stated for the pass alone and for the
\* pipeline.
C17_Descriptions ==
  /\ C17_PassDescriptions
  /\ (op = "transform" /\ runs = 1 /\ StructParent(input) /\ TaggedUnion(input))
       => (panic = <<>> /\ DescriptionsMoved(Unwrap(input.oneOf), doc))
  /\ (FirstRunDone /\ StructParent(input) /\ UntaggedUnion(input))
       => DescriptionsDropped(Unwrap(input.anyOf), doc)

\* the schema is an object: it is typed object or carries object keywords
ObjectShaped(v) ==
  \/ v.type = TypeOf("object")
  \/ DOMAIN v.properties # {} \/ v.required # {} \/ IsSome(v.additionalProperties)

\* a non-empty oneOf of object schemas on a node without anyOf
OneOfOnly(j) ==
  /\ ~IsJBool(j) /\ Decodes(j)
  /\ IsSome(j.oneOf) /\ IsNone(j.anyOf)
  /\ Unwrap(j.oneOf) # <<>>
  /\ \A i \in 1..Len(Unwrap(j.oneOf)) : ~IsJBool(Unwrap(j.oneOf)[i])
  /\ ~(Len(Unwrap(j.oneOf)) = 2 /\ \E i \in 1..2 : Unwrap(j.oneOf)[i] = NullSignature)

\* an object-shaped entry that does not declare exactly one property
WrongArity(j) ==
  \E i \in 1..Len(Unwrap(j.oneOf)) :
    /\ ObjectShaped(Unwrap(j.oneOf)[i])
    /\ Cardinality(DOMAIN Unwrap(j.oneOf)[i].properties) # 1

\* C18: property hoisting on a oneOf (hoist_properties_for_any_of_subschemas
\* and hoist_subschema_properties alike) aborts when an object-shaped entry
\* declares no property or more than one.
C18_TaggedArity ==
  ( /\ op \in {"hoist_properties_for_any_of_subschemas", "hoist_subschema_properties"}
    /\ OneOfOnly(input) /\ WrongArity(input) )
  => panic # <<>>

\* a decodable node with at most one of oneOf and anyOf, without boolean
\* entries, that has no entries or an entry that is not typed object
NotAllObjects(j) ==
  /\ ~IsJBool(j) /\ Decodes(j)
  /\ IsNone(j.oneOf) \/ IsNone(j.anyOf)
  /\ \A i \in 1..Len(Variants(j)) : ~IsJBool(Variants(j)[i])
  /\ \/ Variants(j) = <<>>
     \/ \E i \in 1..Len(Variants(j)) : Variants(j)[i].type # TypeOf("object")

\* C19: hoist_properties_for_any_of_subschemas returns the schema as it was
\* unless the schema has oneOf or anyOf entries and every entry is typed
\* object: entries typed string or integer and the type of the root are left
\* alone.
C19_EarlyReturn ==
  (op = "hoist_properties_for_any_of_subschemas" /\ NotAllObjects(input)) =>
    (panic = <<>> /\ to_value(Unwrap(kube_schema)) = input)

\* every entry that declared properties is left without any, and `out` holds
\* each of its names
AllNamesMoved(ins, outs, out) ==
  /\ Len(outs) = Len(ins)
  /\ \A i \in 1..Len(ins) :
       /\ outs[i].properties = NoEntries
       /\ DOMAIN ins[i].properties \subseteq DOMAIN out.properties

\* C20, for the pipeline: after a completed run on an anyOf of object
\* schemas no entry holds a property and the root holds every name the
\* entries declared, boolean property schemas included.
C20_PipelineMovesAll ==
  (FirstRunDone /\ StructParent(input) /\ UntaggedUnion(input)) =>
    /\ IsSome(doc.anyOf)
    /\ AllNamesMoved(Unwrap(input.anyOf), Unwrap(doc.anyOf), doc)
    /\ \A i \in 1..Len(Unwrap(input.anyOf)) :
         \A n \in DOMAIN Unwrap(input.anyOf)[i].properties :
           IsJBool(Unwrap(input.anyOf)[i].properties[n])
             => doc.properties[n] = Unwrap(input.anyOf)[i].properties[n]

\* C20: when property hoisting returns, every entry with object validation
\* is left with an empty properties map and every (name, schema) it held is
\* in the parent's properties map, whatever the kind of the property schema
\* (object or boolean) and the number of properties.
C20_AllPropertiesMoved ==
  /\ C20_PipelineMovesAll
  /\ (op = "hoist_properties_for_any_of_subschemas" /\ UntaggedUnion(input) /\ panic = <<>>)
       => LET out == to_value(Unwrap(kube_schema)) IN
          /\ IsSome(out.anyOf)
          /\ AllNamesMoved(Unwrap(input.anyOf), Unwrap(out.anyOf), out)
          /\ \A i \in 1..Len(Unwrap(input.anyOf)) :
               \A n \in DOMAIN Unwrap(input.anyOf)[i].properties :
                 out.properties[n] = Unwrap(input.anyOf)[i].properties[n]

\* the entries of a list that carry enum, and the others
WithEnum(v) == ~IsJBool(v) /\ IsSome(v.enum)

\* the enum values of the entries that carry enum, in the order of the list
RECURSIVE EnumsOf(_)
EnumsOf(variants) ==
  IF variants = <<>> THEN <<>>
  ELSE (IF WithEnum(Head(variants)) THEN Unwrap(Head(variants).enum) ELSE <<>>)
         \o EnumsOf(Tail(variants))

\* the types of the typed entries that carry enum, in the order of the list
TypesOf(variants) ==
  SelectSeq([i \in 1..Len(variants) |-> IF WithEnum(variants[i]) THEN variants[i].type
                                        ELSE None],
            LAMBDA t : IsSome(t))

\* the type the root has once the first typed entry with enum is merged
EstablishedType(j) ==
  IF IsSome(j.type) \/ TypesOf(Unwrap(j.oneOf)) = <<>> THEN j.type
  ELSE TypesOf(Unwrap(j.oneOf))[1]

EnumHoistingInput(j) == ~IsJBool(j) /\ Decodes(j) /\ IsSome(j.oneOf)

\* C21: hoist_subschema_enum_values on a oneOf list aborts exactly when a
\* typed entry with enum has another type than the root has by then (its own
\* type, or the type of the first typed entry with enum); otherwise the
\* entries with enum are removed and their values appended to the root's enum
\* in the order of the list, the root's type is the established one, and the
\* entries without enum stay as they were, in their order.
C21_EnumValuesHoisted ==
  (op = "hoist_subschema_enum_values" /\ EnumHoistingInput(input)) =>
    LET ins == Unwrap(input.oneOf)
        out == to_value(Unwrap(kube_schema))
        previous == IF IsSome(input.enum) THEN Unwrap(input.enum) ELSE <<>>
    IN IF \E i \in 1..Len(TypesOf(ins)) : TypesOf(ins)[i] # EstablishedType(input)
       THEN panic # <<>>
       ELSE /\ panic = <<>>
            /\ out.oneOf = Some(SelectSeq(ins, LAMBDA v : ~WithEnum(v)))
            /\ out.enum = IF \E i \in 1..Len(ins) : WithEnum(ins[i])
                          THEN Some(previous \o EnumsOf(ins)) ELSE input.enum
            /\ out.type = EstablishedType(input)
            /\ out = [input EXCEPT !.oneOf = out.oneOf, !.enum = out.enum,
                                   !.type = out.type]

\* an untyped root with own enum values, an entry with enum that is removed
\* and an entry without enum that stays
C21_Witness ==
  /\ op = "hoist_subschema_enum_values" /\ EnumHoistingInput(input) /\ panic = <<>>
  /\ Len(Unwrap(input.oneOf)) = 2
  /\ ~WithEnum(Unwrap(input.oneOf)[1]) /\ WithEnum(Unwrap(input.oneOf)[2])
  /\ IsNone(input.type)
  /\ to_value(Unwrap(kube_schema)).oneOf = Some(<<Unwrap(input.oneOf)[1]>>)
  /\ to_value(Unwrap(kube_schema)).type = Unwrap(input.oneOf)[2].type

\* the entry carries a keyword of the object validation
HasObjectValidation(v) ==
  DOMAIN v.properties # {} \/ v.required # {} \/ IsSome(v.additionalProperties)

\* the root is typed object and no entry with object validation is typed
TypedObject(ins, outs, out) ==
  /\ out.type = TypeOf("object")
  /\ Len(outs) = Len(ins)
  /\ \A i \in 1..Len(ins) : HasObjectValidation(ins[i]) => outs[i].type = None

\* C22, for hoist_properties_for_any_of_subschemas alone
C22_PassRootTypeObject ==
  ( /\ op = "hoist_properties_for_any_of_subschemas" /\ UntaggedUnion(input)
    /\ panic = <<>>
    /\ \E i \in 1..Len(Unwrap(input.anyOf)) : HasObjectValidation(Unwrap(input.anyOf)[i]) )
  => /\ IsSome(to_value(Unwrap(kube_schema)).anyOf)
     /\ TypedObject(Unwrap(input.anyOf), Unwrap(to_value(Unwrap(kube_schema)).anyOf),
                    to_value(Unwrap(kube_schema)))

\* C22: when property hoisting has processed an entry with object validation
\* and returned, the root is typed object, whatever type the entries
\* declared, and the processed entries declare no type.  Stated for the pass
\* alone and for the pipeline.
C22_RootTypeObject ==
  /\ C22_PassRootTypeObject
  /\ ( /\ FirstRunDone /\ UntaggedUnion(input)
       /\ \E i \in 1..Len(Unwrap(input.anyOf)) : HasObjectValidation(Unwrap(input.anyOf)[i]) )
     => /\ IsSome(doc.anyOf)
        /\ TypedObject(Unwrap(input.anyOf), Unwrap(doc.anyOf), doc)

\* C23: remove_optional_enum_null_variant on a schema with a non-empty enum
\* leaves a non-empty enum, whatever values the enum repeats.
C23_EnumStaysNonEmpty ==
  ( /\ op = "remove_optional_enum_null_variant"
    /\ ~IsJBool(input) /\ IsSome(input.enum) /\ Unwrap(input.enum) # <<>> )
  => /\ panic = <<>>
     /\ IsSome(Unwrap(kube_schema).enum_values)
     /\ Unwrap(Unwrap(kube_schema).enum_values) # <<>>

\* the keywords outside the data model that the passes write
WrittenKeywords == {"nullable", PreserveUnknownFields}

\* the keywords of a node that the data model does not name, without the
\* ones the passes write
Passthrough(j) ==
  [k \in DOMAIN j.extra \ WrittenKeywords |-> j.extra[k]]

\* C24: a completed run on a decodable node returns the node's keywords that
\* the data model does not name (title, const, ...) with the values they
\* had, and adds none; only nullable and
\* x-kubernetes-preserve-unknown-fields may differ.
C24_PassthroughPreserved ==
  (FirstRunDone /\ ~IsJBool(input) /\ Decodes(input))
  => Passthrough(doc) = Passthrough(input)

C24_Witness ==
  /\ FirstRunDone /\ ~IsJBool(input) /\ Decodes(input)
  /\ IsSome(input.anyOf)
  /\ "title" \in DOMAIN input.extra
  /\ doc.anyOf = None
  /\ doc.extra = [title |-> "T", nullable |-> JTrue]

\* the oneOf list of a decoded schema, None when it has none
OneOfList(schema) ==
  IF IsNone(schema.subschemas) THEN None ELSE Unwrap(schema.subschemas).one_of

\* an object schema among the variants has neither enum nor const
LacksValues(variants) ==
  \E i \in 1..Len(variants) :
    /\ ~IsJBool(variants[i])
    /\ IsNone(variants[i].enum)
    /\ "const" \notin DOMAIN variants[i].extra

C26_OnlyThreeKeywordsHoisted ==
  ( /\ op = "hoist_any_of_option_enum" /\ OptionalAnyOf(input)
    /\ ~IsJBool(OtherEntry(input)) )
  => /\ panic = <<>>
     /\ to_value(Unwrap(kube_schema)) =
          [input EXCEPT !.description = OtherEntry(input).description,
                        !.type = OtherEntry(input).type,
                        !.enum = OtherEntry(input).enum,
                        !.anyOf = None,
                        !.extra = ("nullable" :> JTrue) @@ input.extra]

C26_Witness ==
  /\ op = "hoist_any_of_option_enum" /\ OptionalAnyOf(input)
  /\ OtherEntry(input) = FullEntry
  /\ "title" \in DOMAIN input.extra
  /\ to_value(Unwrap(kube_schema)).extra = [title |-> "T", nullable |-> JTrue]
  /\ to_value(Unwrap(kube_schema)).format = None
  /\ to_value(Unwrap(kube_schema)).description = Some("entry")

\* the node with the entries of its anyOf in the order p
PermutedAnyOf(j, p) ==
  [j EXCEPT !.anyOf = Some([i \in 1..Len(Unwrap(j.anyOf)) |-> Unwrap(j.anyOf)[p[i]]])]

\* the pass on the permuted node gives the result `schema`, permuted
SameUpToOrder(j, p, aborted, schema) ==
  LET r == hoist_properties_for_any_of_subschemas(DecodeSchema(PermutedAnyOf(j, p)))
      n == Len(Unwrap(j.anyOf))
  IN /\ Panicked(r) = aborted
     /\ ~aborted =>
          /\ r.schema.object = schema.object
          /\ r.schema.instance_type = schema.instance_type
          /\ Len(Unwrap(Unwrap(r.schema.subschemas).any_of)) = n
          /\ \A i \in 1..n :
               Unwrap(Unwrap(r.schema.subschemas).any_of)[i]
                 = Unwrap(Unwrap(schema.subschemas).any_of)[p[i]]

\* C27: hoist_properties_for_any_of_subschemas on an anyOf aborts for every
\* order of the entries or for none, and returns the same parent properties
\* and root type for every order, with the residual entries in the order of
\* the entries they come from.
C27_OrderIndependent ==
  ( /\ op = "hoist_properties_for_any_of_subschemas"
    /\ ~IsJBool(input) /\ IsSome(input.anyOf) /\ IsNone(input.oneOf) )
  => \A p \in Permutations(1..Len(Unwrap(input.anyOf))) :
       SameUpToOrder(input, p, panic # <<>>, Unwrap(kube_schema))

C27_Witness ==
  /\ op = "hoist_properties_for_any_of_subschemas" /\ panic = <<>>
  /\ ~IsJBool(input) /\ IsSome(input.anyOf) /\ IsNone(input.oneOf)
  /\ Len(Unwrap(input.anyOf)) = 2
  /\ Unwrap(input.anyOf)[1] # Unwrap(input.anyOf)[2]
  /\ \A i \in 1..2 : /\ ~IsJBool(Unwrap(input.anyOf)[i])
                     /\ DOMAIN Unwrap(input.anyOf)[i].properties # {}
  /\ DOMAIN to_value(Unwrap(kube_schema)).properties = {"a", "b"}
  /\ Unwrap(to_value(Unwrap(kube_schema)).anyOf)[1]
       # Unwrap(to_value(Unwrap(kube_schema)).anyOf)[2]

\* the pass aborts on two entries that give one property different schemas
C27_AbortWitness ==
  /\ op = "hoist_properties_for_any_of_subschemas" /\ panic # <<>>
  /\ UntaggedUnion(input) /\ Len(Unwrap(input.anyOf)) = 2
  /\ input.properties = NoEntries

\* the node has no oneOf, or an empty one
NoVariants(j) == IsNone(j.oneOf) \/ Unwrap(j.oneOf) = <<>>

\* the result of one implementation against the result `other` of the other
\* one on the same schema
Agree(j, aborted, schema, other) ==
  /\ Panicked(other) = aborted
  /\ ~aborted => /\ other.schema = schema
                 /\ (schema = DecodeSchema(j)) = NoVariants(j)

C28_AbortWitness ==
  /\ op = "hoist_one_of_enum_with_unit_variants"
  /\ panic = <<"oneOf variant did not provide \"enum\" or \"const\"">>
  /\ Panicked(hoist_one_of_enum(DecodeSchema(input)))
====
